---- MODULE Spec2Model ----
(***************************************************************************)
(* Hangman (src/src/main.cpp): the per-round guessing state machine, the   *)
(* single-player / interactive / two-player round loops and the menus that *)
(* lead into them.  The program is single-threaded and blocks only on      *)
(* console input, so a state of the model is the program stopped at one of *)
(* its prompts and an action is everything the program does between one    *)
(* prompt and the next.                                                    *)
(*                                                                         *)
(* A C++ string is a sequence of one-character strings.  guessedLetters is *)
(* used by the program only through find() and +=, so it is kept as a bag  *)
(* of characters: multiplicity is kept, the order of typing is not.        *)
(***************************************************************************)
EXTENDS Bags, FiniteSets, Integers, Sequences, TLC

\* ---------------------------------------------------------------- bounds
\* number of distinct letters the player types at the guess prompt in
\* Single Player / Interactive Two Player
NumLettersSolo == 9
\* number of distinct letters the players type in Two Player
NumLettersDuo == 3
\* rounds played in one invocation of a game mode
MaxRounds == 2
\* largest wonRounds / lostRounds handed to the statistics functions
MaxTally == 3

\* ------------------------------------------------------------ characters
Upper == << "A","B","C","D","E","F","G","H","I","J","K","L","M",
            "N","O","P","Q","R","S","T","U","V","W","X","Y","Z" >>
Lower == << "a","b","c","d","e","f","g","h","i","j","k","l","m",
            "n","o","p","q","r","s","t","u","v","w","x","y","z" >>
Digits == {"0","1","2","3","4","5","6","7","8","9"}

Range(s) == { s[i] : i \in 1..Len(s) }

\* a character no line contains: what input[0] reads on an empty line
NUL == "\\0"
\* not a character: getValidatedInput has not returned (it prompts again)
Reprompt == "<reprompt>"

\* toupper in the C locale, as a table
LowerToUpper == [ c \in Range(Lower) |->
                    Upper[CHOOSE i \in 1..26 : Lower[i] = c] ]

toupper(c) == IF c \in DOMAIN LowerToUpper THEN LowerToUpper[c] ELSE c

isdigit(c) == c \in Digits

convertToUpper(str) == [ i \in 1..Len(str) |-> toupper(str[i]) ]

\* getValidatedInput for one line of input; validOptions is the set of the
\* characters of the validOptions string (only find() is applied to it)
getValidatedInput_noUpper(input, validOptions) ==
  LET c == IF Len(input) = 0 THEN NUL ELSE input[1]
  IN  IF isdigit(c) /\ c \in validOptions THEN c
      ELSE IF Len(input) = 1 /\ (toupper(c) \in validOptions \/ c = "1")
           THEN c
           ELSE Reprompt

getValidatedInput(input, validOptions) ==
  LET c == IF Len(input) = 0 THEN NUL ELSE input[1]
  IN  IF isdigit(c) /\ c \in validOptions THEN c
      ELSE IF Len(input) = 1 /\ (toupper(c) \in validOptions \/ c = "1")
           THEN toupper(c)
           ELSE Reprompt

AtoZ == Range(Upper)

\* ------------------------------------------------------------ the inputs
\* the word list main() read from data.csv: an upper-case entry and an
\* entry somebody typed into the file in lower case
DataCsv == << [word |-> <<"A","B">>, hint |-> <<"X","Y">>],
              [word |-> <<"a">>,     hint |-> <<"h","i">>] >>

\* ---------------------------------------------------------- the word file
NL == "\n"

\* data.csv as text; the last line has no line end, as appendWord leaves it
DataCsvText == << "A","B",",","X","Y", NL, "a",",","h","i" >>

\* the file as the program meets it: whether it opens, and its text
\* (opens: an ifstream on it is good; appends: an ofstream in append mode
\* is good), and its text
File(text) == [ opens |-> TRUE, appends |-> TRUE, text |-> text ]
\* a file that cannot be opened
Unreadable == [ opens |-> FALSE, appends |-> FALSE, text |-> << >> ]
\* no file of that name: opening it for appending creates it
Missing == [ opens |-> FALSE, appends |-> TRUE, text |-> << >> ]
\* a file that can be read and not written
ReadOnly(text) == [ opens |-> TRUE, appends |-> FALSE, text |-> text ]

\* first position of character c in str, 0 for string::npos
find_last(str, c) ==
  IF c \in Range(str)
  THEN CHOOSE i \in 1..Len(str) :
         str[i] = c /\ \A j \in (i + 1)..Len(str) : str[j] # c
  ELSE 0

find(str, c) ==
  IF c \in Range(str)
  THEN CHOOSE i \in 1..Len(str) : str[i] = c /\ \A j \in 1..(i - 1) : str[j] # c
  ELSE 0

\* the lines getline() delivers from a text
RECURSIVE getlines(_)
getlines(text) ==
  IF Len(text) = 0 THEN << >>
  ELSE LET n == find(text, NL)
       IN  IF n = 0 THEN << text >>
           ELSE << SubSeq(text, 1, n - 1) >>
                \o getlines(SubSeq(text, n + 1, Len(text)))

RECURSIVE parseLines(_)
parseLines(lines) ==
  IF Len(lines) = 0 THEN << >>
  ELSE LET line         == Head(lines)
           delimiterPos == find(line, ",")
       IN  IF delimiterPos # 0
           THEN << [ word |-> SubSeq(line, 1, delimiterPos - 1),
                     hint |-> SubSeq(line, delimiterPos + 1, Len(line)) ] >>
                \o parseLines(Tail(lines))
           ELSE parseLines(Tail(lines))

\* readIntoWordItem(wordList, filename), f being the file of that name
readIntoWordItem(list, f) ==
  IF ~f.opens THEN list
  ELSE list \o parseLines(getlines(f.text))

\* what readIntoWordItem / appendWord report on cerr for file f
readFailure(f) == IF f.opens THEN {} ELSE {"Failed to open file"}
appendFailure(f) ==
  IF f.appends THEN {} ELSE {"Failed to open file for appending"}

\* appendWord on file f, the two lines typed being word and hint
\* (the mutants: one writes although the file did not open, one writes
\* no newline before the entry)
appendWord_ignoresFailure(f, word, hint) ==
  [ f EXCEPT !.text = @ \o << NL >> \o convertToUpper(word)
                        \o << "," >> \o convertToUpper(hint) ]

appendWord_noNewline(f, word, hint) ==
  IF ~f.appends THEN f
  ELSE File(f.text \o convertToUpper(word)
                   \o << "," >> \o convertToUpper(hint))

appendWord(f, word, hint) ==
  IF ~f.appends THEN f
  ELSE File(f.text \o << NL >> \o convertToUpper(word)
                   \o << "," >> \o convertToUpper(hint))

LettersTyped(n) == { Upper[i] : i \in 1..n }

\* lines typed at the guess prompt: a letter, a lower-case letter, the
\* sentinel 1, and lines the validator refuses
GuessLines(n) == { <<c>> : c \in LettersTyped(n) }
                 \cup { <<"a">>, <<"b">>, <<"1">> }
                 \cup { <<>>, <<"A","B">>, <<"7">>, <<"?">>, <<"1","A">> }

\* lines typed after the sentinel, as the full-word guess
FullGuessLines == { <<"A","B">>, <<"a","b">>, <<"a">>, <<"B","A">>, <<>> }

\* what player 1 types in Interactive Two Player: word and hint
TypedEntries == { [word |-> <<"a","B">>, hint |-> <<"h">>],
                  [word |-> <<"B">>,     hint |-> <<"X">>],
                  [word |-> <<"A">>,     hint |-> << >>],
                  [word |-> << >>,       hint |-> <<"h">>] }

MenuLines == { <<"0">>, <<"1">>, <<"2">>, <<"3">>, <<"4">>,
               <<"5">>, <<"a">>, <<>>, <<"1","2">> }

YesNoLines == { <<"Y">>, <<"y">>, <<"N">>, <<"n">>, <<"1">>,
                <<"x">>, <<>>, <<"Y","E","S">> }

\* ------------------------------------------------------------- GameState
\* a rate is the exact quotient count / total * 100, kept as a fraction;
\* the rounding of the double it is stored in is not represented
Rate_noPercent(count, total) == [ num |-> count, den |-> total ]

Rate(count, total) == [ num |-> count * 100, den |-> total ]
Zero == [ num |-> 0, den |-> 1 ]

GameState(maxG) ==
  [ chosenWord       |-> <<>>,
    guessedLetters   |-> EmptyBag,
    chosenHint       |-> <<>>,
    incorrectGuesses |-> 0,
    maxGuesses       |-> maxG,
    wordGuessed      |-> FALSE,
    wonRounds        |-> 0,
    lostRounds       |-> 0,
    totalRounds      |-> 0,
    winRate          |-> [num |-> 0, den |-> 1],
    lossRate         |-> [num |-> 0, den |-> 1] ]

PlayerState(st) == [ state |-> st, totalWins |-> 0, totalLosses |-> 0 ]

\* the value of a local that does not exist (outside its function)
NoState == GameState(0)
NoPlayers == [ p \in 1..2 |-> PlayerState(NoState) ]
NoGuess == [ player |-> 0, guess |-> NUL, msg |-> "none", ret |-> FALSE,
             fullGuess |-> <<>> ]

\* ------------------------------------------------- the guessing machine
\* the round-loop condition of all three modes
Playing_offByOne(state) ==
  state.incorrectGuesses <= state.maxGuesses /\ ~state.wordGuessed

Playing_ignoresWon(state) ==
  state.incorrectGuesses < state.maxGuesses

Playing(state) ==
  state.incorrectGuesses < state.maxGuesses /\ ~state.wordGuessed

wordGuess_plusOne(state, fullGuess) ==
  IF fullGuess = state.chosenWord
  THEN [ st  |-> [state EXCEPT !.wordGuessed = TRUE],
         ret |-> TRUE, msg |-> "wordCorrect" ]
  ELSE [ st  |-> [state EXCEPT !.incorrectGuesses = @ + 1],
         ret |-> FALSE, msg |-> "wordIncorrect" ]

wordGuess(state, fullGuess) ==
  IF fullGuess = state.chosenWord
  THEN [ st  |-> [state EXCEPT !.wordGuessed = TRUE],
         ret |-> TRUE, msg |-> "wordCorrect" ]
  ELSE [ st  |-> [state EXCEPT !.incorrectGuesses = state.maxGuesses],
         ret |-> FALSE, msg |-> "wordIncorrect" ]

checkWordGuessed_firstOnly(state) ==
  IF Len(state.chosenWord) > 0
     /\ ~BagIn(state.chosenWord[1], state.guessedLetters)
  THEN [ st |-> state, ret |-> FALSE ]
  ELSE [ st |-> [state EXCEPT !.wordGuessed = TRUE], ret |-> TRUE ]

checkWordGuessed(state) ==
  IF \E i \in 1..Len(state.chosenWord) :
        ~BagIn(state.chosenWord[i], state.guessedLetters)
  THEN [ st |-> state, ret |-> FALSE ]
  ELSE [ st |-> [state EXCEPT !.wordGuessed = TRUE], ret |-> TRUE ]

handleCharacterGuess_noRepeatTest(state, guess) ==
  LET s1 == [state EXCEPT !.guessedLetters = @ (+) SetToBag({guess})]
  IN  IF guess \notin Range(state.chosenWord)
      THEN [ st  |-> [s1 EXCEPT !.incorrectGuesses = @ + 1],
             ret |-> FALSE, msg |-> "incorrect" ]
      ELSE [ st  |-> checkWordGuessed(s1).st,
             ret |-> checkWordGuessed(s1).ret, msg |-> "correct" ]

handleCharacterGuess_countsEveryLetter(state, guess) ==
  IF BagIn(guess, state.guessedLetters)
  THEN [ st |-> state, ret |-> FALSE, msg |-> "already" ]
  ELSE LET s1 == [state EXCEPT !.guessedLetters = @ (+) SetToBag({guess}),
                               !.incorrectGuesses = @ + 1]
       IN  IF guess \notin Range(state.chosenWord)
           THEN [ st |-> s1, ret |-> FALSE, msg |-> "incorrect" ]
           ELSE [ st  |-> checkWordGuessed(s1).st,
                  ret |-> checkWordGuessed(s1).ret, msg |-> "correct" ]

handleCharacterGuess(state, guess) ==
  IF BagIn(guess, state.guessedLetters)
  THEN [ st |-> state, ret |-> FALSE, msg |-> "already" ]
  ELSE LET s1 == [state EXCEPT !.guessedLetters = @ (+) SetToBag({guess})]
       IN  IF guess \notin Range(state.chosenWord)
           THEN [ st  |-> [s1 EXCEPT !.incorrectGuesses = @ + 1],
                  ret |-> FALSE, msg |-> "incorrect" ]
           ELSE [ st  |-> checkWordGuessed(s1).st,
                  ret |-> checkWordGuessed(s1).ret, msg |-> "correct" ]

\* processPlayerGuess once getValidatedInput has accepted `line`; fullLine
\* is the line read after the sentinel (unused for a letter)
processPlayerGuess(state, line, fullLine) ==
  LET guess == getValidatedInput(line, AtoZ)
  IN  IF guess = "1"
      THEN LET fullGuess == convertToUpper(fullLine)
               r == wordGuess(state, fullGuess)
           IN  [ st |-> r.st, ret |-> r.ret, msg |-> r.msg,
                 guess |-> guess, fullGuess |-> fullGuess ]
      ELSE LET r == handleCharacterGuess(state, guess)
           IN  [ st |-> r.st, ret |-> r.ret, msg |-> r.msg,
                 guess |-> guess, fullGuess |-> <<>> ]

displayGameState_alwaysHint(state) ==
  [ hintLine |-> state.chosenHint,
    wordLine |-> [ i \in 1..Len(state.chosenWord) |->
                     IF BagIn(state.chosenWord[i], state.guessedLetters)
                     THEN state.chosenWord[i] ELSE "_" ] ]

\* displayGameState: the hint line and the word line it prints
displayGameState(state) ==
  [ hintLine |-> IF state.incorrectGuesses = 0 THEN << >>
                 ELSE state.chosenHint,
    wordLine |-> [ i \in 1..Len(state.chosenWord) |->
                     IF BagIn(state.chosenWord[i], state.guessedLetters)
                     THEN state.chosenWord[i] ELSE "_" ] ]

NoScreen == [ hintLine |-> << >>, wordLine |-> << >> ]

\* gameStats: totalRounds and the two rates from the counters
gameStats(state) ==
  LET s1 == IF state.wonRounds > 0 \/ state.lostRounds > 0
            THEN [state EXCEPT !.totalRounds = state.wonRounds + state.lostRounds]
            ELSE state
  IN  [s1 EXCEPT !.winRate  = IF s1.totalRounds = 0 THEN Zero
                              ELSE Rate(s1.wonRounds, s1.totalRounds),
                 !.lossRate = IF s1.totalRounds = 0 THEN Zero
                              ELSE Rate(s1.lostRounds, s1.totalRounds)]

endGameDisplay(state) ==
  LET s1 == IF state.wordGuessed
            THEN [state EXCEPT !.wonRounds = @ + 1]
            ELSE IF state.incorrectGuesses >= state.maxGuesses
                 THEN [state EXCEPT !.lostRounds = @ + 1]
                 ELSE state
      total == s1.wonRounds + s1.lostRounds
  IN  [s1 EXCEPT !.totalRounds = total,
                 !.winRate  = IF total > 0 THEN Rate(s1.wonRounds, total)
                                           ELSE Zero,
                 !.lossRate = IF total > 0 THEN Rate(s1.lostRounds, total)
                                           ELSE Zero]

multiplayerEndGameDisplay_countsBoth(playerState) ==
  [ ps |-> [playerState EXCEPT !.totalWins = @ + 1, !.totalLosses = @ + 1],
    invalid |-> FALSE ]

multiplayerEndGameDisplay(playerState) ==
  IF playerState.state.wordGuessed
  THEN [ ps |-> [playerState EXCEPT !.totalWins = @ + 1],
         invalid |-> FALSE ]
  ELSE IF playerState.state.incorrectGuesses = playerState.state.maxGuesses
       THEN [ ps |-> [playerState EXCEPT !.totalLosses = @ + 1],
              invalid |-> FALSE ]
       ELSE [ ps |-> playerState, invalid |-> TRUE ]

multiplayerSetup_twoDraws(state1, state2, wordList, wordIndex) ==
  LET other == (wordIndex % Len(wordList)) + 1
  IN  << [state1 EXCEPT !.chosenWord = wordList[wordIndex].word,
                        !.chosenHint = wordList[wordIndex].hint],
         [state2 EXCEPT !.chosenWord = wordList[other].word,
                        !.chosenHint = wordList[other].hint] >>

\* multiplayerSetup with the index rand() % wordList.size() produced
multiplayerSetup(state1, state2, wordList, wordIndex) ==
  << [state1 EXCEPT !.chosenWord = wordList[wordIndex].word,
                    !.chosenHint = wordList[wordIndex].hint],
     [state2 EXCEPT !.chosenWord = wordList[wordIndex].word,
                    !.chosenHint = wordList[wordIndex].hint] >>

selectDifficultyLevel_noDefault(choice) ==
  CASE choice = "1" -> 8
    [] choice = "2" -> 4
    [] choice = "3" -> 2
    [] OTHER        -> 0

selectDifficultyLevel(choice) ==
  CASE choice = "1" -> 8
    [] choice = "2" -> 4
    [] choice = "3" -> 2
    [] OTHER        -> 8

\* ----------------------------------------------------------------- state
VARIABLES
  pc,             \* the prompt the program is blocked at
  mode,           \* playGame: GameMode mode
  wordList,       \* main: vector<WordItem> wordList
  maxGuesses,     \* the mode function's local int maxGuesses
  state,          \* playSingleplayer / playInteractiveMultiplayer: GameState state
  players,        \* playMultiplayer: player1, player2
  cur,            \* playMultiplayer: which player the for loop is at
  rounds,         \* rounds started in this invocation of the mode
  lastGuess,      \* what the last processPlayerGuess printed and returned
  wordGuessMade,  \* history: player p made a full-word guess in this round
  reported,       \* end-of-round reports printed for player p in this round
  invalid,        \* "Invalid game state" was printed
  choice,         \* selectDifficultyLevel: char choice
  screen,         \* what the last displayGameState of this mode printed
  file,           \* the contents of data.csv
  openFailed,     \* the file-open failures reported on cerr in this run
  typed,          \* the line handed to a function applied on its own
  again,          \* what promptToPlayAgain returned, when the prompt
                  \* answered last was that one
  entered,        \* appendWord: the two lines typed last
  roundsWon       \* history: rounds of this Single Player / Interactive
                  \* session that ended Won

vars == << pc, mode, wordList, maxGuesses, state, players, cur, rounds,
           lastGuess, wordGuessMade, reported, invalid, choice, screen,
           file, openFailed, typed, again, entered, roundsWon >>

NoEntry == [ word |-> << >>, hint |-> << >> ]
NoFlags == [ p \in 1..2 |-> FALSE ]
NoReports == [ p \in 1..2 |-> 0 ]

Init ==
  /\ pc = "menu"
  /\ mode = "NONE"
  /\ file \in {File(DataCsvText), Unreadable}
  /\ wordList = readIntoWordItem(<< >>, file)
  /\ openFailed = readFailure(file)
  /\ typed = << >>
  /\ again = "unasked"
  /\ maxGuesses = 0
  /\ state = NoState
  /\ players = NoPlayers
  /\ cur = 0
  /\ rounds = 0
  /\ lastGuess = NoGuess
  /\ wordGuessMade = NoFlags
  /\ reported = NoReports
  /\ invalid = FALSE
  /\ choice = NUL
  /\ screen = NoScreen
  /\ entered = NoEntry
  /\ roundsWon = 0

Solo == mode \in {"SINGLE_PLAYER", "INTERACTIVE_TWO_PLAYER"}

\* the locals of a mode function are gone once it returns to playGame
BackToMenu ==
  /\ pc' = "menu"
  /\ maxGuesses' = 0
  /\ state' = NoState
  /\ players' = NoPlayers
  /\ cur' = 0
  /\ rounds' = 0
  /\ lastGuess' = NoGuess
  /\ wordGuessMade' = NoFlags
  /\ reported' = NoReports
  /\ choice' = NUL
  /\ screen' = NoScreen
  /\ roundsWon' = 0

\* a round of Single Player: state constructed, word drawn and upper-cased
newSingleRound(maxG, wordIndex) ==
  [ GameState(maxG) EXCEPT
      !.chosenWord = convertToUpper(wordList[wordIndex].word),
      !.chosenHint = convertToUpper(wordList[wordIndex].hint) ]

\* a round of Interactive Two Player from the two lines player 1 typed
newInteractiveRound(maxG, word, hint) ==
  [ GameState(maxG) EXCEPT !.chosenWord = convertToUpper(word),
                           !.chosenHint = convertToUpper(hint) ]

\* ---------------------------------------------------------------- menus
modeMenu(line) ==
  LET ch == getValidatedInput(line, {"0","1","2","3","4"})
  IN  CASE ch = "0" -> "EXIT_GAME"
        [] ch = "1" -> "SINGLE_PLAYER"
        [] ch = "2" -> "TWO_PLAYER"
        [] ch = "3" -> "INTERACTIVE_TWO_PLAYER"
        [] ch = "4" -> "MANAGE_WORDLIST"
        [] OTHER        -> "SINGLE_PLAYER"

ModeMenuFrom(lines) ==
  /\ pc = "menu"
  /\ \E line \in lines :
       /\ getValidatedInput(line, {"0","1","2","3","4"}) # Reprompt
       /\ mode' = modeMenu(line)
       /\ pc' = CASE mode' = "EXIT_GAME"       -> "exit"
                  [] mode' = "MANAGE_WORDLIST" -> "manage"
                  [] OTHER                     -> "difficulty"
  /\ again' = "unasked"
  /\ UNCHANGED << wordList, maxGuesses, state, players, cur, rounds,
                  lastGuess, wordGuessMade, reported, invalid,
                  choice, screen, file, openFailed, typed, entered, roundsWon >>

ModeMenu == ModeMenuFrom(MenuLines)

\* manageWordList, option 3
ManageReturn ==
  /\ pc = "manage"
  /\ \E line \in MenuLines : getValidatedInput(line, {"1","2","3"}) = "3"
  /\ pc' = "menu"
  /\ UNCHANGED << mode, wordList, maxGuesses, state, players, cur, rounds,
                  lastGuess, wordGuessMade, reported, invalid,
                  choice, screen, file, openFailed, typed, again, entered, roundsWon >>

\* setupDifficulty and what the mode does up to its first prompt
SingleplayerStart ==
  /\ pc = "difficulty" /\ mode = "SINGLE_PLAYER"
  /\ \E line \in MenuLines, wordIndex \in 1..Len(wordList) :
       LET ch == getValidatedInput(line, {"1","2","3"})
       IN  /\ ch # Reprompt
           /\ choice' = ch
           /\ maxGuesses' = selectDifficultyLevel(ch)
           /\ state' = newSingleRound(maxGuesses', wordIndex)
  /\ screen' = displayGameState(state')
  /\ pc' = "guess"
  /\ rounds' = 1
  /\ UNCHANGED << mode, wordList, players, cur, lastGuess, wordGuessMade,
                  reported, invalid,
                  file, openFailed, typed, again, entered, roundsWon >>

InteractiveStart ==
  /\ pc = "difficulty" /\ mode = "INTERACTIVE_TWO_PLAYER"
  /\ \E line \in MenuLines :
       LET ch == getValidatedInput(line, {"1","2","3"})
       IN  /\ ch # Reprompt
           /\ choice' = ch
           /\ maxGuesses' = selectDifficultyLevel(ch)
  /\ pc' = "enterWord"
  /\ UNCHANGED << mode, wordList, state, players, cur, rounds, lastGuess,
                  wordGuessMade, reported, invalid,
                  screen, file, openFailed, typed, again, entered, roundsWon >>

InteractiveEnterWord ==
  /\ pc = "enterWord"
  /\ \E e \in TypedEntries :
       state' = newInteractiveRound(maxGuesses, e.word, e.hint)
  /\ screen' = displayGameState(state')
  /\ pc' = "guess"
  /\ rounds' = rounds + 1
  /\ lastGuess' = NoGuess
  /\ wordGuessMade' = NoFlags
  /\ reported' = NoReports
  /\ again' = "unasked"
  /\ UNCHANGED << mode, wordList, maxGuesses, players, cur, invalid,
                  choice, file, openFailed, typed, entered, roundsWon >>

\* the for loop of playMultiplayer entered from the top: the first player
\* whose turn is not skipped, 0 when the while loop ends instead
firstTurn_needsBoth(pl) ==
  IF Playing(pl[1].state) /\ Playing(pl[2].state) THEN 1
  ELSE 0

firstTurn(pl) ==
  IF Playing(pl[1].state) THEN 1
  ELSE IF Playing(pl[2].state) THEN 2
  ELSE 0

\* playMultiplayer: displayGameState for the player whose turn begins
turnScreen(pl, p, before) ==
  IF p = 0 THEN before ELSE displayGameState(pl[p].state)

\* rand() % wordList.size() with an empty wordList is a division by zero:
\* what the program does from there on is undefined
DrawFromEmptyList ==
  /\ pc = "difficulty" /\ mode \in {"SINGLE_PLAYER", "TWO_PLAYER"}
  /\ Len(wordList) = 0
  /\ \E line \in MenuLines :
       LET ch == getValidatedInput(line, {"1","2","3"})
       IN  /\ ch # Reprompt
           /\ choice' = ch
           /\ maxGuesses' = selectDifficultyLevel(ch)
  /\ pc' = "undefined"
  /\ UNCHANGED << mode, wordList, state, players, cur, rounds, lastGuess,
                  wordGuessMade, reported, invalid, screen, file, openFailed, typed, again, entered, roundsWon >>

MultiplayerStart ==
  /\ pc = "difficulty" /\ mode = "TWO_PLAYER"
  /\ \E line \in MenuLines, wordIndex \in 1..Len(wordList) :
       LET ch     == getValidatedInput(line, {"1","2","3"})
           maxG   == selectDifficultyLevel(ch)
           st     == multiplayerSetup(GameState(maxG), GameState(maxG),
                                      wordList, wordIndex)
       IN  /\ ch # Reprompt
           /\ choice' = ch
           /\ maxGuesses' = maxG
           /\ players' = [ p \in 1..2 |-> PlayerState(st[p]) ]
  /\ cur' = firstTurn(players')
  /\ screen' = turnScreen(players', cur', screen)
  /\ pc' = IF cur' = 0 THEN "playAgain" ELSE "guess"
  /\ rounds' = 1
  /\ UNCHANGED << mode, wordList, state, lastGuess, wordGuessMade,
                  reported, invalid,
                  file, openFailed, typed, again, entered, roundsWon >>

\* ---------------------------------------------------------------- rounds
\* one pass of the while loop of playSingleplayer /
\* playInteractiveMultiplayer, and endGameDisplay when the loop ends
SoloGuess ==
  /\ pc = "guess" /\ Solo
  /\ \E line \in GuessLines(NumLettersSolo) :
       LET guess == getValidatedInput(line, AtoZ)
       IN  /\ guess # Reprompt
           /\ \E fullLine \in (IF guess = "1" THEN FullGuessLines ELSE {<<>>}) :
                LET r == processPlayerGuess(state, line, fullLine)
                IN  /\ lastGuess' = [ player |-> 1,
                                      guess |-> r.guess, msg |-> r.msg,
                                      ret |-> r.ret, fullGuess |-> r.fullGuess ]
                    /\ wordGuessMade' =
                         [wordGuessMade EXCEPT ![1] = @ \/ guess = "1"]
                    /\ IF Playing(r.st)
                       THEN /\ state' = r.st
                            /\ pc' = "guess"
                            /\ reported' = reported
                            /\ screen' = displayGameState(r.st)
                            /\ roundsWon' = roundsWon
                       ELSE /\ state' = endGameDisplay(r.st)
                            /\ pc' = "playAgain"
                            /\ screen' = screen
                            /\ roundsWon' = IF r.st.wordGuessed
                                            THEN roundsWon + 1 ELSE roundsWon
                            /\ reported' = [reported EXCEPT ![1] = @ + 1]
  /\ again' = "unasked"
  /\ UNCHANGED << mode, wordList, maxGuesses, players, cur, rounds, invalid,
                  choice, file, openFailed, typed, entered >>

\* playMultiplayer, after the turn of player p: the player prompted next,
\* 0 when the while loop ends
turnAfter_noBreak(pl, p) ==
  IF p = 1 /\ Playing(pl[2].state) THEN 2
  ELSE firstTurn(pl)

turnAfter_restartsLoop(pl, p) ==
  IF pl[p].state.wordGuessed THEN 0
  ELSE firstTurn(pl)

turnAfter(pl, p) ==
  IF pl[p].state.wordGuessed THEN 0
  ELSE IF p = 1 /\ Playing(pl[2].state) THEN 2
  ELSE firstTurn(pl)

\* playMultiplayer: the two tests that call multiplayerEndGameDisplay
reportDue(st) ==
  st.wordGuessed \/ st.incorrectGuesses >= st.maxGuesses

\* one turn of playMultiplayer: the body of the for loop for player cur,
\* then the loop up to the next prompt
MultiGuess ==
  /\ pc = "guess" /\ mode = "TWO_PLAYER"
  /\ \E line \in GuessLines(NumLettersDuo) :
       LET guess == getValidatedInput(line, AtoZ)
       IN  /\ guess # Reprompt
           /\ \E fullLine \in (IF guess = "1" THEN FullGuessLines ELSE {<<>>}) :
                LET r   == processPlayerGuess(players[cur].state, line, fullLine)
                    pl1 == [players EXCEPT ![cur].state = r.st]
                    rep == reportDue(r.st)
                    d   == multiplayerEndGameDisplay(pl1[cur])
                    pl2 == IF rep THEN [pl1 EXCEPT ![cur] = d.ps] ELSE pl1
                IN  /\ lastGuess' = [ player |-> cur,
                                      guess |-> r.guess, msg |-> r.msg,
                                      ret |-> r.ret, fullGuess |-> r.fullGuess ]
                    /\ wordGuessMade' =
                         [wordGuessMade EXCEPT ![cur] = @ \/ guess = "1"]
                    /\ players' = pl2
                    /\ reported' = IF rep
                                   THEN [reported EXCEPT ![cur] = @ + 1]
                                   ELSE reported
                    /\ invalid' = (invalid \/ (rep /\ d.invalid))
                    /\ cur' = turnAfter(pl2, cur)
                    /\ screen' = turnScreen(pl2, cur', screen)
                    /\ pc' = IF cur' = 0 THEN "playAgain" ELSE "guess"
  /\ again' = "unasked"
  /\ UNCHANGED << mode, wordList, maxGuesses, state, rounds,
                  choice, file, openFailed, typed, entered, roundsWon >>

\* ------------------------------------------------------------ play again
promptToPlayAgain(line) ==
  LET response == getValidatedInput(line, {"Y","y","N","n"})
  IN  response = "Y" \/ response = "y"

Answered(line) == getValidatedInput(line, {"Y","y","N","n"}) # Reprompt

SingleplayerAgain ==
  /\ pc = "playAgain" /\ mode = "SINGLE_PLAYER" /\ rounds < MaxRounds
  /\ \E line \in YesNoLines, wordIndex \in 1..Len(wordList) :
       /\ Answered(line) /\ promptToPlayAgain(line)
       /\ state' = newSingleRound(maxGuesses, wordIndex)
  /\ screen' = displayGameState(state')
  /\ pc' = "guess"
  /\ rounds' = rounds + 1
  /\ lastGuess' = NoGuess
  /\ wordGuessMade' = NoFlags
  /\ reported' = NoReports
  /\ again' = "true"
  /\ UNCHANGED << mode, wordList, maxGuesses, players, cur, invalid,
                  choice, file, openFailed, typed, entered, roundsWon >>

InteractiveAgain ==
  /\ pc = "playAgain" /\ mode = "INTERACTIVE_TWO_PLAYER" /\ rounds < MaxRounds
  /\ \E line \in YesNoLines : Answered(line) /\ promptToPlayAgain(line)
  /\ pc' = "enterWord"
  /\ state' = NoState
  /\ lastGuess' = NoGuess
  /\ wordGuessMade' = NoFlags
  /\ reported' = NoReports
  /\ again' = "true"
  /\ UNCHANGED << mode, wordList, maxGuesses, players, cur, rounds, invalid,
                  choice, screen, file, openFailed, typed, entered, roundsWon >>

multiplayerReset_defaultLevel(pl, maxG, wordIndex) ==
  LET st == multiplayerSetup(GameState(8), GameState(8), wordList, wordIndex)
  IN  [ p \in 1..2 |-> [pl[p] EXCEPT !.state = st[p]] ]

\* playMultiplayer after a yes: both states rebuilt and seeded
multiplayerReset(pl, maxG, wordIndex) ==
  LET st == multiplayerSetup(GameState(maxG), GameState(maxG),
                             wordList, wordIndex)
  IN  [ p \in 1..2 |-> [pl[p] EXCEPT !.state = st[p]] ]

\* yes, and the do-while condition, which reads the never-assigned local
\* playAgain, comes out true
MultiplayerAgain ==
  /\ pc = "playAgain" /\ mode = "TWO_PLAYER" /\ rounds < MaxRounds
  /\ \E line \in YesNoLines, wordIndex \in 1..Len(wordList) :
       /\ Answered(line) /\ promptToPlayAgain(line)
       /\ players' = multiplayerReset(players, maxGuesses, wordIndex)
  /\ cur' = firstTurn(players')
  /\ screen' = turnScreen(players', cur', screen)
  /\ pc' = IF cur' = 0 THEN "playAgain" ELSE "guess"
  /\ rounds' = rounds + 1
  /\ lastGuess' = NoGuess
  /\ wordGuessMade' = NoFlags
  /\ reported' = NoReports
  /\ again' = "true"
  /\ UNCHANGED << mode, wordList, maxGuesses, state, invalid,
                  choice, file, openFailed, typed, entered, roundsWon >>

\* yes, and the never-assigned playAgain comes out false: the mode returns
MultiplayerAgainFalls ==
  /\ pc = "playAgain" /\ mode = "TWO_PLAYER" /\ rounds < MaxRounds
  /\ \E line \in YesNoLines : Answered(line) /\ promptToPlayAgain(line)
  /\ BackToMenu
  /\ again' = "true"
  /\ UNCHANGED << mode, wordList, invalid,
                  file, openFailed, typed, entered >>

\* any accepted answer that is not a yes ends the mode
QuitMode ==
  /\ pc = "playAgain"
  /\ \E line \in YesNoLines : Answered(line) /\ ~promptToPlayAgain(line)
  /\ BackToMenu
  /\ again' = "false"
  /\ UNCHANGED << mode, wordList, invalid,
                  file, openFailed, typed, entered >>

Next ==
  \/ ModeMenu
  \/ ManageReturn
  \/ SingleplayerStart
  \/ InteractiveStart
  \/ InteractiveEnterWord
  \/ MultiplayerStart
  \/ DrawFromEmptyList
  \/ SoloGuess
  \/ MultiGuess
  \/ SingleplayerAgain
  \/ InteractiveAgain
  \/ MultiplayerAgain
  \/ MultiplayerAgainFalls
  \/ QuitMode

Spec == Init /\ [][Next]_vars

\* ------------------------------------------- the functions on their own
\* gameStats, endGameDisplay and selectDifficultyLevel applied once to
\* arguments drawn from bounded sets: counters up to MaxTally, any
\* totalRounds left by an earlier call, a round that is Won, Lost or
\* neither, and any character as the choice; processPlayerGuess and
\* promptToPlayAgain applied once to a round in progress and a typed line
UnitChoices == {"1", "2", "3", "0", "4", "9", "A", "y", "?", NUL}

UnitStates ==
  { [ GameState(maxG) EXCEPT !.wonRounds = w, !.lostRounds = l,
                             !.totalRounds = t,
                             !.wordGuessed = g,
                             !.incorrectGuesses = i ] :
      maxG \in {8, 4, 2}, w \in 0..MaxTally, l \in 0..MaxTally,
      t \in 0..(2 * MaxTally), g \in BOOLEAN, i \in {0, 2} }

\* the characters of the typed lines: letters of both cases, the sentinel,
\* other digits, punctuation and a blank
UnitChars == { "A", "B", "Z", "a", "z", "Y", "y", "N", "n",
               "1", "0", "7", "?", " " }

\* longest typed line
MaxLine == 2

RECURSIVE LinesUpTo(_)
LinesUpTo(n) ==
  IF n = 0 THEN { << >> }
  ELSE LinesUpTo(n - 1)
       \cup { Append(l, c) : l \in { m \in LinesUpTo(n - 1) : Len(m) = n - 1 },
                             c \in UnitChars }

UnitLines == LinesUpTo(MaxLine)

\* rounds in progress on the word AB: nothing guessed, A guessed, A and Z
\* guessed (one incorrect guess)
UnitRounds ==
  { [ GameState(maxG) EXCEPT !.chosenWord = << "A", "B" >>,
                             !.chosenHint = << "X" >>,
                             !.guessedLetters = SetToBag(g),
                             !.incorrectGuesses = Cardinality(g \ {"A", "B"}) ] :
      maxG \in {8, 4, 2}, g \in { {}, {"A"}, {"A", "Z"} } }

UnitInit ==
  /\ pc = "unit"
  /\ mode = "NONE"
  /\ file = Unreadable
  /\ wordList = << >>
  /\ openFailed = readFailure(file)
  /\ again = "unasked"
  /\ maxGuesses = 0
  /\ \/ /\ \E st \in UnitStates :
            /\ (st.wordGuessed => st.incorrectGuesses < st.maxGuesses)
            /\ state = st
        /\ choice \in UnitChoices
        /\ typed = << >>
     \/ /\ state \in UnitRounds
        /\ choice = NUL
        /\ typed \in UnitLines
  /\ players = NoPlayers
  /\ cur = 0
  /\ rounds = 0
  /\ lastGuess = NoGuess
  /\ wordGuessMade = NoFlags
  /\ reported = NoReports
  /\ invalid = FALSE
  /\ screen = NoScreen
  /\ entered = NoEntry
  /\ roundsWon = 0

UnitRest == << mode, wordList, players, cur, rounds, wordGuessMade,
               reported, invalid, screen, file, openFailed, typed, entered,
               roundsWon >>

UnitGameStats ==
  /\ pc = "unit"
  /\ state' = gameStats(state)
  /\ pc' = "gameStats"
  /\ UNCHANGED << maxGuesses, choice, lastGuess, again, UnitRest >>

UnitEndGameDisplay ==
  /\ pc = "unit"
  /\ state' = endGameDisplay(state)
  /\ pc' = "endGameDisplay"
  /\ UNCHANGED << maxGuesses, choice, lastGuess, again, UnitRest >>

UnitSelectDifficulty ==
  /\ pc = "unit"
  /\ maxGuesses' = selectDifficultyLevel(choice)
  /\ pc' = "selectDifficultyLevel"
  /\ UNCHANGED << state, choice, lastGuess, again, UnitRest >>

\* processPlayerGuess on a round in progress, the line typed at its prompt
\* being `typed`: getValidatedInput prompts again, or the guess is made
UnitProcessPlayerGuess ==
  /\ pc = "unit"
  /\ state \in UnitRounds
  /\ LET guess == getValidatedInput(typed, AtoZ)
     IN  IF guess = Reprompt
         THEN /\ pc' = "processPlayerGuess.reprompt"
              /\ UNCHANGED << state, lastGuess >>
         ELSE /\ pc' = "processPlayerGuess"
              /\ \E fullLine \in (IF guess = "1" THEN FullGuessLines
                                                 ELSE {<<>>}) :
                   LET r == processPlayerGuess(state, typed, fullLine)
                   IN  /\ state' = r.st
                       /\ lastGuess' = [ player |-> 1, guess |-> r.guess,
                                         msg |-> r.msg, ret |-> r.ret,
                                         fullGuess |-> r.fullGuess ]
  /\ UNCHANGED << maxGuesses, choice, again, UnitRest >>

\* promptToPlayAgain, the line typed at its prompt being `typed`:
\* getValidatedInput prompts again, or returns the response kept in choice
UnitPromptToPlayAgain ==
  /\ pc = "unit"
  /\ LET response == getValidatedInput(typed, {"Y", "y", "N", "n"})
     IN  IF response = Reprompt
         THEN /\ pc' = "promptToPlayAgain.reprompt"
              /\ UNCHANGED << choice, again >>
         ELSE /\ pc' = "promptToPlayAgain"
              /\ choice' = response
              /\ again' = IF promptToPlayAgain(typed) THEN "true" ELSE "false"
  /\ UNCHANGED << maxGuesses, state, lastGuess, UnitRest >>

UnitNext ==
  \/ UnitGameStats
  \/ UnitEndGameDisplay
  \/ UnitSelectDifficulty
  \/ UnitProcessPlayerGuess
  \/ UnitPromptToPlayAgain

SpecUnit == UnitInit /\ [][UnitNext]_vars

\* ---------------------------------------------------- the word list file
\* Manage Word List on its own: the program started on one of a few word
\* files, words added, the program left and started again
MaxFileLen == 14

CatalogFiles == { File(DataCsvText),
                  File(DataCsvText \o << NL >>),
                  File(<< "A", "B", NL, "C", ",", "D" >>),
                  File(<< >>),
                  Missing,
                  Unreadable,
                  ReadOnly(DataCsvText) }

\* the two lines typed in appendWord: a plain entry, a hint with a comma,
\* no hint, no word, and a word with a comma
AppendedEntries == { [word |-> <<"z","e">>,     hint |-> <<"a"," ","b">>],
                     [word |-> <<"Q">>,         hint |-> <<"x",",","y">>],
                     [word |-> <<"Q">>,         hint |-> << >>],
                     [word |-> << >>,           hint |-> <<"h">>],
                     [word |-> <<"a",",","b">>, hint |-> <<"c">>] }

\* main: the state the program starts in on file f
Started(f) ==
  /\ pc = "menu"
  /\ mode = "NONE"
  /\ file = f
  /\ wordList = readIntoWordItem(<< >>, f)
  /\ openFailed = readFailure(f)
  /\ typed = << >>
  /\ again = "unasked"
  /\ maxGuesses = 0
  /\ state = NoState
  /\ players = NoPlayers
  /\ cur = 0
  /\ rounds = 0
  /\ lastGuess = NoGuess
  /\ wordGuessMade = NoFlags
  /\ reported = NoReports
  /\ invalid = FALSE
  /\ choice = NUL
  /\ screen = NoScreen
  /\ entered = NoEntry
  /\ roundsWon = 0

CatalogInit == \E f \in CatalogFiles : Started(f)

\* the lines typed at the main menu: 0, 4, and two lines it refuses
CatalogMenuLines == { <<"0">>, <<"4">>, <<"5">>, << >> }

\* playGame with the menu answered 0 or 4 (or refused)
CatalogMenu == ModeMenuFrom(CatalogMenuLines)

\* manageWordList, option 2: appendWord, then "Press enter to continue"
ManageAppend ==
  /\ pc = "manage"
  /\ Len(file.text) < MaxFileLen
  /\ \E line \in MenuLines : getValidatedInput(line, {"1","2","3"}) = "2"
  /\ \E e \in AppendedEntries :
       /\ file' = appendWord(file, e.word, e.hint)
       /\ entered' = IF file.appends THEN e ELSE entered
  /\ openFailed' = openFailed \cup appendFailure(file)
  /\ UNCHANGED << pc, mode, wordList, maxGuesses, state, players, cur,
                  rounds, lastGuess, wordGuessMade, reported, invalid,
                  choice, screen, typed, again, roundsWon >>

\* the program has ended and is run again: main reads the file as it is now
RunAgain ==
  /\ pc = "exit"
  /\ pc' = "menu"
  /\ mode' = "NONE"
  /\ wordList' = readIntoWordItem(<< >>, file)
  /\ openFailed' = readFailure(file)
  /\ UNCHANGED << maxGuesses, state, players, cur, rounds, lastGuess,
                  wordGuessMade, reported, invalid, choice, screen, file,
                  typed, again, entered, roundsWon >>

CatalogNext ==
  \/ CatalogMenu
  \/ ManageAppend
  \/ ManageReturn
  \/ RunAgain

SpecCatalog == CatalogInit /\ [][CatalogNext]_vars

\* ------------------------------------------------------------ vocabulary
Won(st) == st.wordGuessed
Lost(st) == st.incorrectGuesses >= st.maxGuesses
Unresolved(st) == ~Won(st) /\ ~Lost(st)

\* the RoundStates that exist in the current state
InRound == pc \in {"guess", "playAgain"}
Live == IF ~InRound THEN {}
        ELSE IF mode = "TWO_PLAYER" THEN {1, 2} ELSE {1}
RoundOf(p) == IF mode = "TWO_PLAYER" THEN players[p].state ELSE state

TypeOK ==
  /\ pc \in {"menu", "manage", "difficulty", "enterWord", "guess",
             "playAgain", "exit", "undefined"}
  /\ maxGuesses \in {0, 8, 4, 2}
  /\ cur \in 0..2
  /\ rounds \in 0..MaxRounds

WrongLetters(st) ==
  { c \in BagToSet(st.guessedLetters) : c \notin Range(st.chosenWord) }
AllGuessed(st) == Range(st.chosenWord) \subseteq BagToSet(st.guessedLetters)
IsUpperCase(str) == convertToUpper(str) = str
\* the step is a guess: every step taken from the guess prompt is one
GuessStep == pc = "guess"
Guesser == lastGuess'.player
NextRoundOf(p) == IF mode' = "TWO_PLAYER" THEN players'[p].state ELSE state'
SameRound == rounds' = rounds /\ pc' \in {"guess", "playAgain"}

\* ---------------------------------------------------------------- claims

\* C1: a full-word guess that does not match the target, made in an
\* Unresolved round with any maxGuesses in {8,4,2} and any incorrectGuesses
\* below it, sets incorrectGuesses to exactly maxGuesses in that one step,
\* and the round is Lost.
C1_WrongWordGuessLoses ==
  [][ (GuessStep /\ lastGuess'.msg = "wordIncorrect") =>
        LET old == RoundOf(Guesser)
            new == NextRoundOf(Guesser)
        IN  /\ Unresolved(old)
            /\ old.maxGuesses \in {8, 4, 2}
            /\ old.incorrectGuesses \in 0..(old.maxGuesses - 1)
            /\ new.incorrectGuesses = old.maxGuesses
            /\ new.maxGuesses = old.maxGuesses
            /\ Lost(new) /\ ~Won(new) ]_vars

\* a wrong word guess at Noob after one or more wrong letters, short of 7
C1_Witness ==
  /\ lastGuess.msg = "wordIncorrect"
  /\ LET st == RoundOf(lastGuess.player)
     IN  /\ st.maxGuesses = 8
         /\ st.incorrectGuesses = 8
         /\ Cardinality(WrongLetters(st)) \in 1..6

\* C2: in a round with letter guesses only, incorrectGuesses is the number
\* of distinct guessed letters that do not occur in the target, the round
\* is Lost exactly when that number equals maxGuesses, and the number never
\* exceeds maxGuesses.
C2_LossThreshold ==
  \A p \in Live :
    ~wordGuessMade[p] =>
      LET st == RoundOf(p)
          n  == Cardinality(WrongLetters(st))
      IN  /\ st.incorrectGuesses = n
          /\ n <= st.maxGuesses
          /\ Lost(st) <=> (n = st.maxGuesses)
          /\ Lost(st) => ~Playing(st)

\* eight distinct wrong letters lose a Noob round
C2_Witness ==
  \E p \in Live :
    /\ ~wordGuessMade[p]
    /\ RoundOf(p).maxGuesses = 8
    /\ Lost(RoundOf(p))
    /\ Cardinality(WrongLetters(RoundOf(p))) = 8

\* C3: with a non-empty target of letters A-Z and letter guesses only, the
\* round is Won exactly when every character of the target is in
\* guessedLetters.
C3_WinCompleteness ==
  \A p \in Live :
    LET st == RoundOf(p)
    IN  ( /\ ~wordGuessMade[p]
          /\ Len(st.chosenWord) > 0
          /\ Range(st.chosenWord) \subseteq AtoZ )
        => (Won(st) <=> AllGuessed(st))

\* a two-letter word won by letters after a wrong letter
C3_Witness ==
  \E p \in Live :
    /\ ~wordGuessMade[p]
    /\ Cardinality(Range(RoundOf(p).chosenWord)) = 2
    /\ Won(RoundOf(p))
    /\ RoundOf(p).incorrectGuesses >= 1

\* C4: a guess of a letter that is already in guessedLetters is answered
\* "already guessed" and changes nothing of the round; every other letter
\* guess adds one letter that was not in guessedLetters.
C4_RepeatedLetter ==
  [][ (GuessStep /\ lastGuess'.msg \in {"already", "incorrect", "correct"}) =>
        LET old == RoundOf(Guesser)
            new == NextRoundOf(Guesser)
        IN  IF lastGuess'.msg = "already"
            THEN /\ new = old
                 /\ lastGuess'.ret = FALSE
            ELSE \E c \in AtoZ :
                   /\ ~BagIn(c, old.guessedLetters)
                   /\ new.guessedLetters = old.guessedLetters (+) SetToBag({c}) ]_vars

\* a repeated letter in a round that has a wrong and a right letter
C4_Witness ==
  /\ pc = "guess"
  /\ lastGuess.msg = "already"
  /\ LET st == RoundOf(lastGuess.player)
     IN  /\ st.incorrectGuesses >= 1
         /\ BagToSet(st.guessedLetters) \cap Range(st.chosenWord) # {}

\* C5: in every round of every mode 0 <= incorrectGuesses <= maxGuesses,
\* the round is Lost iff incorrectGuesses = maxGuesses, and no round is Won
\* and Lost at once.
C5_CountWithinLimit ==
  \A p \in Live :
    LET st == RoundOf(p)
    IN  /\ st.maxGuesses \in {8, 4, 2}
        /\ 0 <= st.incorrectGuesses
        /\ st.incorrectGuesses <= st.maxGuesses
        /\ Lost(st) <=> (st.incorrectGuesses = st.maxGuesses)
        /\ ~(Won(st) /\ Lost(st))

\* Two Player: one player hanged, the other one short of it
C5_Witness ==
  /\ mode = "TWO_PLAYER" /\ pc = "guess"
  /\ Lost(players[1].state)
  /\ players[2].state.incorrectGuesses = players[2].state.maxGuesses - 1

\* C6: a round that is Won or Lost is never at the guess prompt, and until
\* a new round replaces it wordGuessed, incorrectGuesses and guessedLetters
\* keep their values.
C6_TerminalAbsorbing ==
  [][ \A p \in Live :
        ~Unresolved(RoundOf(p)) =>
          /\ ~(pc = "guess" /\ (mode = "TWO_PLAYER" => cur = p))
          /\ SameRound =>
               /\ NextRoundOf(p).wordGuessed = RoundOf(p).wordGuessed
               /\ NextRoundOf(p).incorrectGuesses = RoundOf(p).incorrectGuesses
               /\ NextRoundOf(p).guessedLetters = RoundOf(p).guessedLetters ]_vars

\* Two Player: player 1 is hanged and player 2 has played on since
C6_Witness ==
  /\ mode = "TWO_PLAYER" /\ pc = "guess" /\ cur = 2
  /\ Lost(players[1].state)
  /\ lastGuess.player = 2

\* C7: a full-word guess that equals the target when letter case is
\* ignored wins the round, in every mode; it is never answered as a wrong
\* guess.
C7_CaseInsensitiveWordGuess ==
  \A p \in Live :
    (lastGuess.player = p /\ lastGuess.msg = "wordIncorrect") =>
      convertToUpper(lastGuess.fullGuess) # convertToUpper(RoundOf(p).chosenWord)

\* C8: the target and the hint of every round hold no lower-case letter.
C8_TargetUpperCase ==
  \A p \in Live :
    /\ IsUpperCase(RoundOf(p).chosenWord)
    /\ IsUpperCase(RoundOf(p).chosenHint)

\* C9: Two Player: the step in which a player becomes Won ends the round;
\* the other player gets no turn and keeps state and tallies.
C9_WinEndsRound ==
  [][ (GuessStep /\ mode = "TWO_PLAYER") =>
        \A p \in 1..2 :
          Won(players'[p].state) =>
            /\ p = cur
            /\ pc' = "playAgain" /\ cur' = 0
            /\ players'[3 - p] = players[3 - p] ]_vars

\* player 1 has won, player 2 is still Unresolved and has no loss
C9_Witness ==
  /\ mode = "TWO_PLAYER" /\ pc = "playAgain"
  /\ Won(players[1].state)
  /\ Unresolved(players[2].state)
  /\ players[2].state.incorrectGuesses >= 1
  /\ players[2].totalLosses = 0

\* C10: Two Player: a player's end-of-round report has run once if the
\* player's round is Won or Lost and not at all otherwise; it runs in the
\* step that ends the player's round and adds one to exactly one of
\* totalWins and totalLosses; "Invalid game state" is never printed.
C10_ReportOnce ==
  /\ [] ( (mode = "TWO_PLAYER" /\ InRound) =>
            /\ ~invalid
            /\ \A p \in 1..2 :
                 reported[p] = IF Unresolved(players[p].state) THEN 0 ELSE 1 )
  /\ [][ (GuessStep /\ mode = "TWO_PLAYER") =>
           \A p \in 1..2 :
             LET w  == players[p].totalWins
                 l  == players[p].totalLosses
                 w2 == players'[p].totalWins
                 l2 == players'[p].totalLosses
             IN  IF reported'[p] = reported[p] + 1
                 THEN /\ Unresolved(players[p].state)
                      /\ ~Unresolved(players'[p].state)
                      /\ \/ (Won(players'[p].state) /\ w2 = w + 1 /\ l2 = l)
                         \/ (Lost(players'[p].state) /\ w2 = w /\ l2 = l + 1)
                 ELSE /\ reported'[p] = reported[p]
                      /\ w2 = w /\ l2 = l ]_vars

\* both players have had their report: one hanged, then the other won
C10_Witness ==
  /\ mode = "TWO_PLAYER" /\ pc = "playAgain"
  /\ reported[1] = 1 /\ reported[2] = 1
  /\ players[1].totalLosses = 1 /\ players[2].totalWins = 1

\* C11: Two Player: every round starts with player 1; a guess after which
\* both players are Unresolved passes the turn to the other player, also
\* when the letter had been guessed before; each step at the guess prompt
\* is one guess of the player whose turn it is, and that player is
\* Unresolved.
C11_TurnsAlternate ==
  /\ [] ( (mode = "TWO_PLAYER" /\ pc = "guess") =>
            /\ cur \in {1, 2}
            /\ Unresolved(players[cur].state) )
  /\ [][ /\ (mode' = "TWO_PLAYER" /\ rounds' # rounds /\ pc' = "guess")
              => cur' = 1
         /\ (GuessStep /\ mode = "TWO_PLAYER") =>
              /\ lastGuess'.player = cur
              /\ players'[3 - cur] = players[3 - cur]
              /\ ( Unresolved(players'[1].state) /\ Unresolved(players'[2].state) )
                   => (pc' = "guess" /\ cur' = 3 - cur) ]_vars

\* player 2 has repeated a letter and the turn is back with player 1
C11_Witness ==
  /\ mode = "TWO_PLAYER" /\ pc = "guess" /\ cur = 1
  /\ lastGuess.player = 2 /\ lastGuess.msg = "already"
  /\ Unresolved(players[1].state) /\ Unresolved(players[2].state)
  /\ rounds = 2

C13_SameWordForBoth ==
  (mode = "TWO_PLAYER" /\ InRound) =>
    /\ players[1].state.chosenWord = players[2].state.chosenWord
    /\ players[1].state.chosenHint = players[2].state.chosenHint
    /\ \E i \in 1..Len(wordList) :
         /\ wordList[i].word = players[1].state.chosenWord
         /\ wordList[i].hint = players[1].state.chosenHint

\* the second round of a session, drawn after play-again
C13_Witness ==
  /\ mode = "TWO_PLAYER" /\ pc = "guess" /\ rounds = 2
  /\ players[2].state.chosenWord = <<"a">>
  /\ players[2].state.chosenHint = <<"h","i">>
  /\ players[1].totalWins + players[1].totalLosses >= 1

\* two rates are the same number
SameRate(a, b) == a.num * b.den = b.num * a.den

\* C14: Single Player / Interactive Two Player: the tallies reported at the
\* end of a round are the numbers of rounds won and lost so far in the
\* session, and the rates are those of these numbers.
C14_TalliesPersist ==
  (Solo /\ pc = "playAgain") =>
    /\ state.wonRounds = roundsWon
    /\ state.lostRounds = rounds - roundsWon
    /\ SameRate(state.winRate, Rate(roundsWon, rounds))
    /\ SameRate(state.lossRate, Rate(rounds - roundsWon, rounds))

\* the rates of st are those of its counters: 0 and 0 without rounds,
\* else wonRounds * 100 / (wonRounds + lostRounds) and 100 minus that
RatesOfCounters(st) ==
  LET total == st.wonRounds + st.lostRounds
      w == st.winRate
      l == st.lossRate
  IN  /\ w.den # 0 /\ l.den # 0
      /\ IF total = 0
         THEN w.num = 0 /\ l.num = 0
         ELSE /\ w.num * total = st.wonRounds * 100 * w.den
              /\ l.num * w.den + w.num * l.den = 100 * w.den * l.den

C16_DifficultyMapping ==
  [][ (pc = "unit" /\ pc' = "selectDifficultyLevel") =>
        /\ maxGuesses' \in {8, 4, 2}
        /\ (choice = "1") => maxGuesses' = 8
        /\ (choice = "2") => maxGuesses' = 4
        /\ (choice = "3") => maxGuesses' = 2
        /\ (choice \notin {"1", "2", "3"}) => maxGuesses' = 8 ]_vars

\* a choice outside 1..3 has produced 8
C16_Witness ==
  /\ pc = "selectDifficultyLevel"
  /\ choice = "9"
  /\ maxGuesses = 8

\* inside one invocation of a game mode, before and after the step
InMode == pc \in {"enterWord", "guess", "playAgain"}

\* C17: the difficulty is chosen once per invocation of a mode: every round
\* of the invocation, of either player, has maxGuesses equal to the value
\* chosen at its start, and the value does not change while the mode runs.
C17_DifficultyFixed ==
  /\ [] ( InMode =>
            /\ choice \in {"1", "2", "3"}
            /\ maxGuesses = CASE choice = "1" -> 8
                              [] choice = "2" -> 4
                              [] choice = "3" -> 2
            /\ \A p \in Live : RoundOf(p).maxGuesses = maxGuesses )
  /\ [][ (InMode /\ InMode') =>
           (maxGuesses' = maxGuesses /\ choice' = choice) ]_vars

\* the second Two Player round of a Veteran session
C17_Witness ==
  /\ mode = "TWO_PLAYER" /\ pc = "guess" /\ rounds = 2
  /\ maxGuesses = 2
  /\ players[1].state.maxGuesses = 2 /\ players[2].state.maxGuesses = 2
  /\ players[2].state.incorrectGuesses = 1

\* the round whose state the screen shows at the guess prompt
Shown == IF mode = "TWO_PLAYER" THEN players[cur].state ELSE state

\* C18 as claimed: the hint line shown is blank iff incorrectGuesses is 0
\* and is the hint of the round iff incorrectGuesses >= 1.
C18_HintBlankIffNoMiss ==
  pc = "guess" =>
    /\ (screen.hintLine = << >>) <=> (Shown.incorrectGuesses = 0)
    /\ (screen.hintLine = Shown.chosenHint) <=> (Shown.incorrectGuesses >= 1)

\* C18: the hint line shown is empty while incorrectGuesses is 0 and is the
\* hint of the round from the first incorrect guess on; for a round whose
\* hint is not empty it is blank iff incorrectGuesses is 0.  The count
\* never goes down in a round, so a round without an incorrect guess has
\* never shown its hint.
C18_HintWithheld ==
  /\ [] ( pc = "guess" =>
            /\ screen.hintLine = IF Shown.incorrectGuesses = 0 THEN << >>
                                 ELSE Shown.chosenHint
            /\ Shown.chosenHint # << >> =>
                 /\ (screen.hintLine = << >>) <=> (Shown.incorrectGuesses = 0)
                 /\ (screen.hintLine = Shown.chosenHint)
                      <=> (Shown.incorrectGuesses >= 1) )
  /\ [][ SameRound =>
           \A p \in Live :
             NextRoundOf(p).incorrectGuesses >= RoundOf(p).incorrectGuesses ]_vars

\* the hint is on the screen after the first incorrect guess
C18_Witness ==
  /\ pc = "guess"
  /\ Shown.incorrectGuesses = 1
  /\ Shown.chosenHint # << >>
  /\ screen.hintLine = Shown.chosenHint

\* C19: a mode that draws its word from the word list is entered only with
\* a word list that is not empty, and no draw from an empty list happens.
C19_NoDrawFromEmptyList ==
  /\ pc # "undefined"
  /\ (mode \in {"SINGLE_PLAYER", "TWO_PLAYER"}
      /\ pc \in {"difficulty", "guess", "playAgain"}) => Len(wordList) > 0

\* what readIntoWordItem loads from the word file as it is
Reloaded(f) == readIntoWordItem(<< >>, f)

\* the entry appendWord stores for the lines typed
Stored(e) == [ word |-> convertToUpper(e.word), hint |-> convertToUpper(e.hint) ]

\* a step in which appendWord has written to the file
Appended == file' # file

\* C20 as stated: whatever word and hint are typed in appendWord, the file
\* reloaded after the append is the file reloaded before it, followed by
\* one entry with the upper-cased word and the upper-cased hint.
C20_RoundTripAnyWord ==
  [][ Appended => Reloaded(file') = Reloaded(file) \o << Stored(entered') >> ]_vars

\* C20: when the word typed in appendWord has no comma in it, the file
\* reloaded after the append is the file reloaded before it, unchanged and
\* in the same order, followed by one entry whose word is the upper-cased
\* word and whose hint is the upper-cased hint (commas in the hint
\* included); and a program started again loads exactly that list.
C20_RoundTrip ==
  /\ [][ (Appended /\ "," \notin Range(entered'.word))
           => Reloaded(file') = Reloaded(file) \o << Stored(entered') >> ]_vars
  /\ [][ (pc = "exit" /\ pc' = "menu") => wordList' = Reloaded(file') ]_vars

\* the program has been started again after an entry whose hint has a
\* comma was appended to a file of two entries, and has loaded all three
C20_Witness ==
  /\ pc = "menu"
  /\ entered = [word |-> <<"Q">>, hint |-> <<"x",",","y">>]
  /\ Len(wordList) = 3
  /\ SubSeq(wordList, 1, 2) = DataCsv
  /\ wordList[3] = [word |-> <<"Q">>, hint |-> <<"X",",","Y">>]

\* ------------------------------------------------------- the file format
\* the places in a text where a line starts: its beginning and the place
\* after every newline
LineStarts(text) == {1} \cup { i + 1 : i \in { j \in 1..Len(text) : text[j] = NL } }

\* the line that starts at place s: up to the next newline or the end
LineAt(text, s) ==
  LET ends == { j \in s..Len(text) : text[j] = NL }
      last == IF ends = {} THEN Len(text)
              ELSE (CHOOSE j \in ends : \A k \in ends : j <= k) - 1
  IN  SubSeq(text, s, last)

\* the entry a line with a comma stands for: split at its first comma
EntryOf(line) ==
  LET commas == { j \in 1..Len(line) : line[j] = "," }
      first  == CHOOSE j \in commas : \A k \in commas : j <= k
  IN  [ word |-> SubSeq(line, 1, first - 1),
        hint |-> SubSeq(line, first + 1, Len(line)) ]

\* one entry per line with a comma, in file order
FileEntries(text) ==
  LET with == { s \in LineStarts(text) : "," \in Range(LineAt(text, s)) }
  IN  [ k \in 1..Cardinality(with) |->
          EntryOf(LineAt(text,
                         CHOOSE s \in with :
                           Cardinality({ t \in with : t < s }) = k - 1)) ]

\* C21: whenever the program has loaded a word file that opens (at its
\* start), wordList holds one entry per line with a comma, in file order,
\* word being the text before the first comma and hint all the rest of
\* the line; lines without a comma, empty ones included, give no entry.
C21_LoadFormat ==
  /\ (file.opens => wordList = FileEntries(file.text))
  /\ [][ (pc = "exit" /\ pc' = "menu" /\ file'.opens)
           => wordList' = FileEntries(file'.text) ]_vars

\* a file with a line without a comma, a line with one comma and a line
\* with two has been loaded: two entries, the second hint has the comma
C21_Witness ==
  /\ pc = "menu"
  /\ file.text = << "A", "B", NL, "C", ",", "D", NL, "Q", ",", "X", ",", "Y" >>
  /\ wordList = << [word |-> <<"C">>, hint |-> <<"D">>],
                   [word |-> <<"Q">>, hint |-> <<"X", ",", "Y">>] >>

\* everything but pc: the state a step can change
Data == << mode, wordList, maxGuesses, state, players, cur, rounds,
           lastGuess, wordGuessMade, reported, invalid, choice, screen,
           file, typed, again, entered, roundsWon >>

\* C22: a file-open failure is not fatal and changes no state.  A program
\* started on a word file that does not open for reading is at the mode
\* menu with an empty wordList; an appendWord on a file that does not open
\* for appending writes nothing, changes nothing else and leaves the
\* program at the word-list management menu.
C22_OpenFailure ==
  /\ (~file.opens => (pc = "menu" /\ wordList = << >>))
  /\ [][ /\ (pc = "exit" /\ pc' = "menu" /\ ~file'.opens)
             => (wordList' = << >> /\ file' = file)
         /\ (pc = "manage" /\ ~file.appends)
             => /\ file' = file
                /\ (openFailed' # openFailed)
                     => (pc' = "manage" /\ Data' = Data) ]_vars
  /\ [] ( ~file.appends => file \in {Unreadable, ReadOnly(DataCsvText)} )

\* the word file opens neither way: the load has failed, an append has
\* failed, and the program is at the management menu with an empty list
C22_Witness ==
  /\ pc = "manage"
  /\ file = Unreadable
  /\ openFailed = {"Failed to open file", "Failed to open file for appending"}
  /\ wordList = << >>

\* the letter-guess and full-word-guess operations, by what they print
LetterMsgs == {"already", "incorrect", "correct"}
WordMsgs == {"wordCorrect", "wordIncorrect"}

\* C23: whatever line is typed at the guess prompt, the character handed to
\* handleCharacterGuess is an upper-case letter A-Z: a line of one letter
\* is forwarded as that letter in upper case, the line 1 goes to the
\* full-word guess and adds no letter, and every other line (empty, longer,
\* a digit, punctuation, a blank) is prompted for again with the round
\* untouched.
C23_ForwardedCharacter ==
  [][ (pc = "unit" /\ pc' \in {"processPlayerGuess",
                               "processPlayerGuess.reprompt"}) =>
        LET letter == Len(typed) = 1 /\ typed[1] \in Range(Upper) \cup Range(Lower)
            g      == lastGuess'.guess
        IN  /\ letter =>
                  /\ pc' = "processPlayerGuess"
                  /\ g \in Range(Upper)
                  /\ g \in {typed[1], toupper(typed[1])}
                  /\ lastGuess'.msg \in LetterMsgs
                  /\ BagToSet(state'.guessedLetters)
                       = BagToSet(state.guessedLetters) \cup {g}
            /\ typed = << "1" >> =>
                  /\ pc' = "processPlayerGuess"
                  /\ g = "1"
                  /\ lastGuess'.msg \in WordMsgs
                  /\ state'.guessedLetters = state.guessedLetters
            /\ (~letter /\ typed # << "1" >>) =>
                  /\ pc' = "processPlayerGuess.reprompt"
                  /\ state' = state ]_vars

\* a lower-case z was typed and Z was handed to handleCharacterGuess
C23_Witness ==
  /\ pc = "processPlayerGuess"
  /\ typed = << "z" >>
  /\ lastGuess.guess = "Z" /\ lastGuess.msg = "incorrect"
  /\ BagIn("Z", state.guessedLetters)

\* C24: a guess of a letter not guessed before returns true when the
\* letter occurs in the target, whether or not the word is complete after
\* it, and false when it does not occur.
C24_ResultTellsOccurrence ==
  [][ (GuessStep /\ lastGuess'.guess \in AtoZ
       /\ ~BagIn(lastGuess'.guess, RoundOf(Guesser).guessedLetters)) =>
        (lastGuess'.ret <=> lastGuess'.guess \in Range(RoundOf(Guesser).chosenWord))
    ]_vars

\* a RoundState as a new round has it
Fresh(st) ==
  /\ Unresolved(st)
  /\ st.incorrectGuesses = 0
  /\ st.guessedLetters = EmptyBag

\* C25: Two Player: after a round has ended, a yes at the play-again
\* prompt starts another round, both RoundStates new and holding one entry
\* of the word list, each player's totalWins and totalLosses kept; the
\* session ends only on an answer that is not a yes.
C25_YesStartsRound ==
  [][ (mode = "TWO_PLAYER" /\ pc = "playAgain") =>
        /\ again' = "true" =>
             /\ pc' = "guess"
             /\ rounds' = rounds + 1
             /\ \A p \in 1..2 :
                  /\ Fresh(players'[p].state)
                  /\ players'[p].totalWins = players[p].totalWins
                  /\ players'[p].totalLosses = players[p].totalLosses
             /\ \E i \in 1..Len(wordList) :
                  \A p \in 1..2 : players'[p].state.chosenWord = wordList[i].word
        /\ pc' = "menu" => again' = "false" ]_vars

\* C26: a word added with Add Word is part of the word list the game
\* draws from in the same run: once appendWord has written the entry, the
\* wordList handed to the game modes holds it.
C26_AddedWordInList ==
  [][ Appended => \E i \in 1..Len(wordList') : wordList'[i] = Stored(entered')
    ]_vars

\* C27: the character getValidatedInput returns is, in upper case, one of
\* validOptions: the play-again prompt returns only Y or N, and an answer
\* it accepts that is not a yes is the line N or n.
C27_OnlyValidOptions ==
  [][ (pc = "unit" /\ pc' = "promptToPlayAgain") =>
        /\ toupper(choice') \in {"Y", "N"}
        /\ again' = "false" => typed \in { << "N" >>, << "n" >> } ]_vars

\* C28: in every state of a round, in every mode and for every target
\* (the empty line player 1 may type included), a round whose target
\* characters are all in guessedLetters is Won; so an Unresolved round
\* has a target character that is not guessed yet.
C28_CompleteIsWon ==
  \A p \in Live : AllGuessed(RoundOf(p)) => Won(RoundOf(p))

\* wordGuess writes the target word with either verdict
WordGuessPrints == lastGuess'.msg \in WordMsgs

\* multiplayerEndGameDisplay writes the target word with the congratulation
\* and with "The correct word was", not with "Invalid game state"
EndDisplayPrints ==
  /\ reported'[Guesser] = reported[Guesser] + 1
  /\ \/ NextRoundOf(Guesser).wordGuessed
     \/ NextRoundOf(Guesser).incorrectGuesses = NextRoundOf(Guesser).maxGuesses

\* a turn of playMultiplayer in which the target word is written
WordPrinted == WordGuessPrints \/ EndDisplayPrints

\* C29: Two Player: no turn that prints the target word leaves the game
\* waiting for a further guess, i.e. the word is never shown while a player
\* whose round is Unresolved still has turns to take.
C29_WordNotRevealed ==
  [][ (GuessStep /\ mode = "TWO_PLAYER" /\ WordPrinted) =>
        ~(pc' = "guess" /\ Unresolved(NextRoundOf(cur'))) ]_vars

\* C30: in every round no letter is in guessedLetters twice; a full-word
\* guess, right or wrong, leaves guessedLetters as it was; incorrectGuesses
\* is maxGuesses once a wrong full-word guess was made in the round, and
\* otherwise the number of guessed letters that are not in the target.
C30_LettersAndCount ==
  /\ [](\A p \in Live :
          LET st == RoundOf(p)
          IN  /\ \A c \in BagToSet(st.guessedLetters) :
                    CopiesIn(c, st.guessedLetters) = 1
              /\ st.incorrectGuesses =
                    IF wordGuessMade[p] /\ ~st.wordGuessed
                    THEN st.maxGuesses
                    ELSE Cardinality(WrongLetters(st)))
  /\ [][ (GuessStep /\ lastGuess'.guess = "1") =>
          /\ lastGuess'.msg \in WordMsgs
          /\ NextRoundOf(Guesser).guessedLetters =
               RoundOf(Guesser).guessedLetters ]_vars

\* a wrong word guess after a wrong and a right letter: the count is
\* maxGuesses, above the one wrong letter, and the letters are kept
C30_Witness ==
  \E p \in Live :
    LET st == RoundOf(p)
    IN  /\ lastGuess.player = p /\ lastGuess.msg = "wordIncorrect"
        /\ Cardinality(WrongLetters(st)) = 1
        /\ BagToSet(st.guessedLetters) \cap Range(st.chosenWord) # {}
        /\ st.incorrectGuesses = st.maxGuesses
        /\ st.maxGuesses = 4

\* the guess actions player p has taken in the round without repeating a
\* letter: processPlayerGuess records every new letter in guessedLetters,
\* and a full-word guess is the one guess that records none
GuessesTaken(p) ==
  Cardinality(BagToSet(RoundOf(p).guessedLetters))
    + (IF wordGuessMade[p] THEN 1 ELSE 0)
NextGuessesTaken(p) ==
  Cardinality(BagToSet(NextRoundOf(p).guessedLetters))
    + (IF wordGuessMade'[p] THEN 1 ELSE 0)
\* the player the guess prompt is waiting for
Prompted == IF mode = "TWO_PLAYER" THEN cur ELSE 1
\* number of distinct letters in the target + maxGuesses - 1
GuessLimit(st) == Cardinality(Range(st.chosenWord)) + st.maxGuesses - 1
LetterTarget(st) ==
  st.chosenWord # << >> /\ Range(st.chosenWord) \subseteq AtoZ

\* C31: a round on a non-empty target of letters A-Z: every guess that is
\* not a repeated letter counts one; a player never has more than
\* (distinct target letters + maxGuesses - 1) of them, nor more than 26
\* letters, is Won or Lost when the limit is reached, and is prompted only
\* below it, in Two Player for each of the players.
C31_RoundTerminates ==
  /\ [](\A p \in Live :
          LET st == RoundOf(p)
          IN  LetterTarget(st) =>
                /\ GuessesTaken(p) <= GuessLimit(st)
                /\ Cardinality(BagToSet(st.guessedLetters)) <= 26
                /\ GuessesTaken(p) = GuessLimit(st) => ~Unresolved(st)
                /\ (pc = "guess" /\ p = Prompted) =>
                     GuessesTaken(p) < GuessLimit(st))
  /\ [][ (GuessStep /\ lastGuess'.msg # "already") =>
          NextGuessesTaken(Guesser) = GuessesTaken(Guesser) + 1 ]_vars

\* Two Player: a player who wins with the last guess the limit allows
\* (every wrong letter but one used up, then the last target letter),
\* by letters only
C31_Witness ==
  /\ mode = "TWO_PLAYER" /\ pc = "playAgain"
  /\ \E p \in Live :
       LET st == RoundOf(p)
       IN  /\ LetterTarget(st) /\ Len(st.chosenWord) = 2
           /\ ~wordGuessMade[p]
           /\ Won(st)
           /\ st.incorrectGuesses = st.maxGuesses - 1
           /\ GuessesTaken(p) = GuessLimit(st)

====
